---- MODULE Spec2Model ----
(***************************************************************************)
(* PointCloudWriter (src/src/pc_writer.rs): one writing session of a       *)
(* compressed vector section.  The session owns a queue of pending points, *)
(* packs them into data packets and backpatches the section header when it *)
(* is finalized.                                                           *)
(*                                                                         *)
(* The storage stream is kept as a set of chunks, each with its byte       *)
(* offset and byte length, so that byte positions and lengths are exact    *)
(* while the bytes of one write stay together.  Paging and checksums of    *)
(* the PagedWriter are outside this module: physical and logical position  *)
(* coincide.                                                               *)
(***************************************************************************)
EXTENDS Integers, Sequences, FiniteSets, TLC

(***************************************************************************)
(* Bounds of the exploration.                                              *)
(***************************************************************************)
MaxAdds == 3          \* add_point calls per session
MaxFinalize == 2      \* finalize calls per session
MaxIoErrors == 1      \* I/O errors the storage returns during a session

(***************************************************************************)
(* Program constants.                                                      *)
(***************************************************************************)
SectionHeaderSize == 32     \* CompressedVectorSectionHeader::SIZE
PacketHeaderSize == 6       \* DataPacketHeader::SIZE
PacketBitBudget == 512000   \* 64000 * 8
U16Max == 65535             \* u16::MAX
U16Modulus == 65536         \* `as u16` keeps the value modulo 2^16

(***************************************************************************)
(* Prototypes.  A Record is [name, bits]: bits is data_type.bit_size().    *)
(* Field names are numbers: the i-th field of a prototype is named i.      *)
(***************************************************************************)
Field(n, b) == [name |-> n, bits |-> b]

\* ProtoPacked, ProtoMixed: widths that are no multiple of 8, many points to
\* the packet; the one bit of ProtoPacked cannot hold the raw value 2.  ProtoPair: two points fill a packet.  ProtoWide: 800 fields
\* of 80 bytes, one point fills the budget and the size table takes 1600
\* bytes more.  ProtoHuge: one point is larger than the budget.
ProtoPacked == << Field(1, 1) >>
ProtoMixed == << Field(1, 17), Field(2, 3) >>
ProtoPair == << Field(1, 128000), Field(2, 128000) >>
ProtoWide == [i \in 1..800 |-> Field(i, 640)]
ProtoHuge == << Field(1, 600000) >>

Prototypes == {ProtoPacked, ProtoMixed, ProtoPair, ProtoWide, ProtoHuge}

\* Raw values a caller puts into a point.
Values == {1, 2}

\* The sum of F(lo), ..., F(hi), halving the range.
RECURSIVE SumOver(_, _, _)
SumOver(F(_), lo, hi) ==
    IF lo > hi THEN 0
    ELSE IF lo = hi THEN F(lo)
    ELSE LET mid == (lo + hi) \div 2
         IN SumOver(F, lo, mid) + SumOver(F, mid + 1, hi)

Min(S) == CHOOSE x \in S : \A y \in S : x <= y

FieldNames(proto) == 1..Len(proto)

\* RawPoint: a mapping from some field names to raw values.
\* The points explored: every field present, the last one with each raw value
\* (one value for the many fields of ProtoWide), or the last field absent.
PointsOf(proto) ==
    {[n \in FieldNames(proto) |-> IF n = Len(proto) THEN v ELSE 1] :
        v \in (IF Len(proto) <= 2 THEN Values ELSE {1})}
    \cup {[n \in FieldNames(proto) \ {Len(proto)} |-> 1]}

(***************************************************************************)
(* Results of an operation (crate::Error).                                 *)
(***************************************************************************)
Ok == [kind |-> "Ok", field |-> 0]
MissingField(name) == [kind |-> "MissingField", field |-> name]
EncodingError(name) == [kind |-> "EncodingError", field |-> name]
InternalError == [kind |-> "InternalError", field |-> 0]
WriteError == [kind |-> "WriteError", field |-> 0]

(***************************************************************************)
(* The storage stream (PagedWriter).                                       *)
(***************************************************************************)
Chunk(off, len, kind, a, b, vals) ==
    [off |-> off, len |-> len, kind |-> kind, a |-> a, b |-> b, vals |-> vals]

Overlaps(c, from, to) == c.off < to /\ from < c.off + c.len

\* What is left of the chunks that a write over [from, to) covers in part.
Torn(c, from, to) ==
    (IF c.off < from THEN {Chunk(c.off, from - c.off, "Torn", 0, 0, << >>)} ELSE {})
    \cup
    (IF to < c.off + c.len
     THEN {Chunk(to, c.off + c.len - to, "Torn", 0, 0, << >>)} ELSE {})

\* write_all at the writer's position: the bytes replace what was there.
WriteAll(w, len, kind, a, b, vals) ==
    IF len = 0 THEN w
    ELSE LET from == w.position
             to == w.position + len
             hit == {c \in w.data : Overlaps(c, from, to)}
         IN [data |-> (w.data \ hit)
                       \cup UNION {Torn(c, from, to) : c \in hit}
                       \cup {Chunk(from, len, kind, a, b, vals)},
             position |-> to]

\* align(): zero bytes up to the next 4-byte position.
AlignPadding(position) == (4 - (position % 4)) % 4

physical_seek(w, offset) == [w EXCEPT !.position = offset]

\* CompressedVectorSectionHeader::write
WriteSectionHeader(w, header) ==
    WriteAll(w, SectionHeaderSize, "SectionHeader",
             header.data_offset, header.section_length, << >>)

(***************************************************************************)
(* ByteStreamOutBuffer and Record::data_type.                              *)
(***************************************************************************)
NewByteStreamOutBuffer == [vals |-> << >>, bits |-> 0]

\* data_type.write: whether the raw value fits the field's bit width.
Representable(value, bits) == IF bits >= 30 THEN TRUE ELSE value < 2^bits

DataTypeWrite(value, bits, buf) ==
    [vals |-> Append(buf.vals, value), bits |-> buf.bits + bits]

\* completed_byte_count: the fully populated bytes held.
full_bytes(buf) == buf.bits \div 8

\* drain: the byte-aligned buffer, a trailing partial byte zero-padded.
get_full_bytes(buf) == [len |-> (buf.bits + 7) \div 8, vals |-> buf.vals]

(***************************************************************************)
(* PointCloudWriter::new                                                   *)
(***************************************************************************)
point_size(proto) == LET bit_size(i) == proto[i].bits
                     IN SumOver(bit_size, 1, Len(proto))

MaxPointsPerPacket(proto) == PacketBitBudget \div point_size(proto)

EmptySectionHeader(offset) ==
    [data_offset |-> offset + SectionHeaderSize, section_length |-> 0]

NewSectionHeader(offset) ==
    [data_offset |-> offset + SectionHeaderSize,
     section_length |-> SectionHeaderSize]

(***************************************************************************)
(* PointCloudWriter::write_buffer_to_disk                                  *)
(***************************************************************************)
\* The newest point of a longer queue is left in the queue.
PacketPointsButNewest(maxPoints, queueLen) ==
    IF maxPoints < queueLen THEN maxPoints
    ELSE IF queueLen > 1 THEN queueLen - 1 ELSE queueLen

PacketPoints(maxPoints, queueLen) == IF maxPoints < queueLen THEN maxPoints ELSE queueLen

\* The error names the first field of the prototype.
PointErrorNamingFirst(p, proto) ==
    LET present == DOMAIN p
        bad == {i \in 1..Len(proto) :
                   \/ proto[i].name \notin present
                   \/ ~Representable(p[proto[i].name], proto[i].bits)}
    IN IF bad = {} THEN Ok
       ELSE LET i == Min(bad)
            IN IF proto[i].name \notin present
               THEN MissingField(proto[1].name)
               ELSE EncodingError(proto[i].name)

\* The first failing lookup or write of one point, fields in prototype order.
PointError(p, proto) ==
    LET present == DOMAIN p
        bad == {i \in 1..Len(proto) :
                   \/ proto[i].name \notin present
                   \/ ~Representable(p[proto[i].name], proto[i].bits)}
    IN IF bad = {} THEN Ok
       ELSE LET i == Min(bad)
            IN IF proto[i].name \notin present
               THEN MissingField(proto[i].name)
               ELSE EncodingError(proto[i].name)

\* The values go into the buffer newest first.
RECURSIVE FillBufferNewestFirst(_, _, _)
FillBufferNewestFirst(points, r, buf) ==
    IF points = << >> THEN buf
    ELSE DataTypeWrite(Head(points)[r.name], r.bits,
                       FillBufferNewestFirst(Tail(points), r, buf))

\* The buffer of field r after the points were written to it in order.
RECURSIVE FillBuffer(_, _, _)
FillBuffer(points, r, buf) ==
    IF points = << >> THEN buf
    ELSE FillBuffer(Tail(points), r, DataTypeWrite(Head(points)[r.name], r.bits, buf))

NoRounding(packet_length) == packet_length

RoundUp4(packet_length) ==
    IF packet_length % 4 # 0
    THEN packet_length + (4 - (packet_length % 4))
    ELSE packet_length

PacketLength(proto_len, sum_buffer_sizes) ==
    RoundUp4(PacketHeaderSize + proto_len * 2 + sum_buffer_sizes)

KeepSectionLength(section_length, packet_length) == section_length

\* section_header.section_length += packet_length
AddPacketLength(section_length, packet_length) == section_length + packet_length

\* The limit taken as that of a signed 16-bit length.
PacketTooLongSigned(proto_len, sum_buffer_sizes, packet_length) ==
    packet_length > U16Max \div 2

PacketTooLong(proto_len, sum_buffer_sizes, packet_length) == packet_length > U16Max

\* The write calls of one packet before align(), in order.
PacketWrites(proto, packet_length, buffer_sizes, buffers) ==
    LET n == Len(proto)
    IN << [len |-> PacketHeaderSize, kind |-> "PacketHeader",
           a |-> packet_length, b |-> n % U16Modulus, vals |-> << >>] >>
       \o [i \in 1..n |-> [len |-> 2, kind |-> "Size", a |-> buffer_sizes[i],
                           b |-> i, vals |-> << >>]]
       \o [i \in 1..n |-> [len |-> get_full_bytes(buffers[i]).len, kind |-> "Data",
                           a |-> proto[i].bits, b |-> i,
                           vals |-> get_full_bytes(buffers[i]).vals]]

\* The write calls lo..hi issued one after the other, halving the range (the
\* writer is looked at first, so that it is computed before the next half).
RECURSIVE IssueRange(_, _, _, _)
IssueRange(w, calls, lo, hi) ==
    IF lo > hi \/ w.position < 0 THEN w
    ELSE IF lo = hi
    THEN LET c == calls[lo] IN WriteAll(w, c.len, c.kind, c.a, c.b, c.vals)
    ELSE LET mid == (lo + hi) \div 2
         IN IssueRange(IssueRange(w, calls, lo, mid), calls, mid + 1, hi)

\* The first count of the write calls.
IssueWrites(w, calls, count) == IssueRange(w, calls, 1, count)

Align(w) == WriteAll(w, AlignPadding(w.position), "Padding", 0, 0, << >>)

\* The points popped before the failure are put back.
QueueKept(queue, failed) == queue

\* The queue after the flush failed at its point number failed: the points up
\* to that one were popped.
QueueAfterFailure(queue, failed) == SubSeq(queue, failed + 1, Len(queue))

\* Lines 59-99: the points are popped and encoded, the sizes and the packet
\* length computed; nothing is written yet.  The result: res (Ok if the packet
\* is to be written), buffer (the queue left), points (those of the packet),
\* computed (the packet_length computed, 0 if none was), culprit (the point at
\* which it failed, if it failed at one) and calls (the write calls to issue).
ResolveBuffers(proto, maxPoints, queue) ==
    LET packet_points == PacketPoints(maxPoints, Len(queue))
        stop(res, rest, computed, culprit) ==
            [res |-> res, buffer |-> rest, points |-> << >>, computed |-> computed,
             culprit |-> culprit, calls |-> << >>]
    IN
    IF packet_points = 0 THEN stop(Ok, queue, 0, << >>)
    ELSE
    LET failing == {j \in 1..packet_points : PointError(queue[j], proto) # Ok}
    IN
    IF failing # {}
    THEN stop(PointError(queue[Min(failing)], proto),
              QueueAfterFailure(queue, Min(failing)),
              0, << queue[Min(failing)] >>)
    ELSE
    LET n == Len(proto)
        points == SubSeq(queue, 1, packet_points)
        rest == SubSeq(queue, packet_points + 1, Len(queue))
        filled(i) == FillBuffer(points, proto[i], NewByteStreamOutBuffer)
        len(i) == full_bytes(filled(i))
        sum_buffer_sizes == SumOver(len, 1, n)
        packet_length == PacketLength(n, sum_buffer_sizes)
    IN
    IF PacketTooLong(n, sum_buffer_sizes, packet_length)
    THEN stop(InternalError, rest, packet_length, << >>)
    ELSE [res |-> Ok, buffer |-> rest, points |-> points, computed |-> packet_length,
          culprit |-> << >>,
          calls |-> PacketWrites(proto, packet_length,
                                 [i \in 1..n |-> len(i) % U16Modulus],
                                 [i \in 1..n |-> filled(i)])]

\* Lines 101-132: the packet length is added to the section length and the
\* packet is written.  fail = 0: every write succeeds; fail = f: the f-th write
\* call (packet header, sizes, buffers, align) returns an I/O error.
\* The result: [res, buffer, section_length, writer] and, for the observer,
\* packets (the packet whose header reached the stream, if any), computed and
\* culprit.
WritePacket(resolved, section_length, w, fail) ==
    IF resolved.calls = << >>
    THEN [res |-> resolved.res, buffer |-> resolved.buffer,
          section_length |-> section_length, writer |-> w, packets |-> << >>,
          computed |-> resolved.computed, culprit |-> resolved.culprit]
    ELSE
    LET issued == IF fail = 0 THEN Len(resolved.calls) ELSE fail - 1
        written == IssueWrites(w, resolved.calls, issued)
        aligned == IF fail = 0 THEN Align(written) ELSE written
        entry == [off |-> w.position, packet_length |-> resolved.computed,
                  points |-> resolved.points, complete |-> fail = 0]
    IN [res |-> IF fail = 0 THEN Ok ELSE WriteError,
        buffer |-> resolved.buffer,
        section_length |-> AddPacketLength(section_length, resolved.computed),
        writer |-> aligned,
        packets |-> IF fail = 1 THEN << >> ELSE << entry >>,
        computed |-> resolved.computed,
        culprit |-> << >>]

write_buffer_to_disk(proto, maxPoints, queue, section_length, w, fail) ==
    WritePacket(ResolveBuffers(proto, maxPoints, queue), section_length, w, fail)

\* The write calls a flush of this prototype can issue: 2n + 1 and align().
FlushWrites(proto) == 2 * Len(proto) + 2

(***************************************************************************)
(* The session.                                                            *)
(***************************************************************************)
VARIABLES
    writer,                 \* the PagedWriter: [data, position]
    pointclouds,            \* the caller's list of PointCloud records
    guid,
    section_offset,
    section_header,         \* [data_offset, section_length]
    prototype,
    point_count,
    buffer,                 \* the queue of pending points
    max_points_per_packet,
    pc,                     \* "idle", or "finalize" inside finalize's flush loop
    \* What an observer of the session has seen so far.
    packets,                \* the packets whose header reached the stream
    last,                   \* the last call and its result
    calls,                  \* the calls made: [add_point, finalize]
    errors,                 \* the calls that returned an error
    io_errors,              \* the I/O errors the storage returned
    header_writes,          \* the section header writes that succeeded
    rewinds,                \* the seeks back to the section start
    prior,                  \* the records in the list when the session opened
    closed                  \* the finalize calls that returned Ok

vars == << writer, pointclouds, guid, section_offset, section_header, prototype,
           point_count, buffer, max_points_per_packet, pc, packets, last, calls,
           errors, io_errors, header_writes, rewinds, prior, closed >>

\* A section is the first of its file, opened at position 0 with the caller's
\* list empty, or follows an earlier one that left a record in the list.
StartOffset(earlier) == IF earlier = 0 THEN 0 ELSE 50

PriorRecord == [guid |-> "earlier", records |-> 7, file_offset |-> 0,
                prototype |-> ProtoPacked]

PriorData(offset) ==
    IF offset = 0 THEN {} ELSE {Chunk(0, offset, "Prior", 0, 0, << >>)}

NoPoint == << >>

\* A call as its caller saw it: the writer before it (before its last flush,
\* for finalize), the point given, whether it ran a flush and what the flush
\* reported.
Call(op, res, before, point, flushed, computed, culprit) ==
    [op |-> op, res |-> res, before |-> before, point |-> point, flushed |-> flushed,
     computed |-> computed, culprit |-> culprit]

\* The packets of a flush, with the call that wrote them and the number of
\* add_point calls made by then.
Tagged(entries, op, n) ==
    [i \in 1..Len(entries) |->
        [off |-> entries[i].off, packet_length |-> entries[i].packet_length,
         points |-> entries[i].points, complete |-> entries[i].complete,
         op |-> op, n |-> n]]

Running == [kind |-> "Running", field |-> 0]

\* PointCloudWriter::new returned Ok, for a prototype and with n earlier records.
Opened(proto, n) ==
      LET offset == StartOffset(n) IN
        /\ prototype = proto
        /\ guid = "guid"
        /\ section_offset = offset
        /\ section_header = NewSectionHeader(offset)
        /\ writer = WriteSectionHeader([data |-> PriorData(offset), position |-> offset],
                                       NewSectionHeader(offset))
        /\ max_points_per_packet = MaxPointsPerPacket(proto)
        /\ point_count = 0
        /\ buffer = << >>
        /\ pointclouds = [i \in 1..n |-> PriorRecord]
        /\ prior = n
        /\ pc = "idle"
        /\ packets = << >>
        /\ last = Call("new", Ok, [data |-> PriorData(offset), position |-> offset],
                       NoPoint, FALSE, 0, << >>)
        /\ closed = 0
        /\ calls = [add_point |-> 0, finalize |-> 0]
        /\ errors = 0
        /\ io_errors = 0
        /\ header_writes = 1
        /\ rewinds = 0

Init == \E proto \in Prototypes, n \in {0, 1} : Opened(proto, n)

\* The I/O failures a flush can meet: none, or one of the writes it issues.
FlushFailures(resolved) ==
    IF io_errors >= MaxIoErrors \/ resolved.calls = << >>
    THEN {0} ELSE 0..FlushWrites(prototype)

Resolved(queue) == ResolveBuffers(prototype, max_points_per_packet, queue)

\* write_buffer_to_disk on this session, the queue already resolved.
Flush(resolved, fail) ==
    WritePacket(resolved, section_header.section_length, writer, fail)

\* No flush: the queue as it is.
NoFlush(queue) ==
    [res |-> Ok, buffer |-> queue, points |-> << >>, computed |-> 0,
     culprit |-> << >>, calls |-> << >>]

FlushWhenOver(queueLen, maxPoints) == queueLen > maxPoints

FlushTriggered(queueLen, maxPoints) == queueLen >= maxPoints

\* PointCloudWriter::add_point.  resolved: what lines 59-99 of the flush make
\* of the queue with the point appended, if the call runs a flush.
add_point(point, flushed, resolved, fail) ==
    /\ pc = "idle"
    /\ calls.add_point < MaxAdds
    /\ LET r == Flush(resolved, fail)
       IN /\ buffer' = r.buffer
          /\ point_count' = point_count + 1
          /\ section_header' = [section_header EXCEPT !.section_length = r.section_length]
          /\ writer' = r.writer
          /\ packets' = packets \o Tagged(r.packets, "add_point", calls.add_point + 1)
          /\ last' = Call("add_point", r.res, writer, << point >>, flushed,
                          r.computed, r.culprit)
          /\ errors' = IF r.res = Ok THEN errors ELSE errors + 1
          /\ io_errors' = IF r.res = WriteError THEN io_errors + 1 ELSE io_errors
    /\ calls' = [calls EXCEPT !.add_point = @ + 1]
    /\ UNCHANGED << pointclouds, guid, section_offset, prototype,
                    max_points_per_packet, pc, header_writes, rewinds, prior,
                    closed >>

\* finalize, entered or inside its loop: one more flush of a non-empty queue.
finalize_flush(resolved, fail) ==
    /\ buffer # << >>
    /\ \/ pc = "idle" /\ calls.finalize < MaxFinalize
       \/ pc = "finalize"
    /\ LET r == Flush(resolved, fail)
       IN /\ buffer' = r.buffer
          /\ section_header' = [section_header EXCEPT !.section_length = r.section_length]
          /\ writer' = r.writer
          /\ packets' = packets \o Tagged(r.packets, "finalize", calls.add_point)
          /\ pc' = IF r.res = Ok THEN "finalize" ELSE "idle"
          /\ last' = Call("finalize", IF r.res = Ok THEN Running ELSE r.res,
                          writer, NoPoint, TRUE, r.computed, r.culprit)
          /\ errors' = IF r.res = Ok THEN errors ELSE errors + 1
          /\ io_errors' = IF r.res = WriteError THEN io_errors + 1 ELSE io_errors
    /\ calls' = IF pc = "idle" THEN [calls EXCEPT !.finalize = @ + 1] ELSE calls
    /\ UNCHANGED << pointclouds, guid, section_offset, prototype, point_count,
                    max_points_per_packet, header_writes, rewinds, prior, closed >>

PointCloudAtData == [guid |-> guid, records |-> point_count,
                     file_offset |-> section_header.data_offset,
                     prototype |-> prototype]

NewPointCloud == [guid |-> guid, records |-> point_count,
                  file_offset |-> section_offset, prototype |-> prototype]

PushPointCloud(list, record) == Append(list, record)

\* The stream is left where the header write ended.
StayBehindHeader(w, end_offset) == w

\* physical_seek(end_offset): back behind the section.
SeekBack(w, end_offset) == physical_seek(w, end_offset)

\* The calls finalize makes on the writer once the queue is empty:
\* physical_position, physical_seek, the header write, physical_seek.
FinalizeSteps == 4

\* finalize with the queue empty: backpatch the header, emit the record.
\* fail = 0: every call succeeds; fail = f: the f-th call returns an I/O error.
finalize_close(fail) ==
    /\ buffer = << >>
    /\ \/ pc = "idle" /\ calls.finalize < MaxFinalize
       \/ pc = "finalize"
    /\ LET end_offset == writer.position
           at_start == physical_seek(writer, section_offset)
           rewritten == WriteSectionHeader(at_start, section_header)
           at_end == SeekBack(rewritten, end_offset)
       IN /\ writer' = CASE fail \in {1, 2} -> writer
                         [] fail = 3 -> at_start
                         [] fail = 4 -> rewritten
                         [] OTHER -> at_end
          /\ rewinds' = IF fail \in {1, 2} THEN rewinds ELSE rewinds + 1
          /\ header_writes' = IF fail \in {1, 2, 3} THEN header_writes
                              ELSE header_writes + 1
          /\ pointclouds' = IF fail = 0 THEN PushPointCloud(pointclouds, NewPointCloud)
                            ELSE pointclouds
          /\ last' = Call("finalize", IF fail = 0 THEN Ok ELSE WriteError,
                          writer, NoPoint, FALSE, 0, << >>)
          /\ closed' = IF fail = 0 THEN closed + 1 ELSE closed
          /\ errors' = IF fail = 0 THEN errors ELSE errors + 1
          /\ io_errors' = IF fail = 0 THEN io_errors ELSE io_errors + 1
    /\ pc' = "idle"
    /\ calls' = IF pc = "idle" THEN [calls EXCEPT !.finalize = @ + 1] ELSE calls
    /\ UNCHANGED << guid, section_offset, section_header, prototype, point_count,
                    buffer, max_points_per_packet, packets, prior >>

\* The I/O failures finalize can meet once the queue is empty.
CloseFailures == IF io_errors >= MaxIoErrors THEN {0} ELSE 0..FinalizeSteps

AddPoint ==
    \E point \in PointsOf(prototype) :
        LET queue == Append(buffer, point)
            flushed == FlushTriggered(Len(queue), max_points_per_packet)
            resolved == IF flushed THEN Resolved(queue) ELSE NoFlush(queue)
        IN \E fail \in FlushFailures(resolved) :
               add_point(point, flushed, resolved, fail)

FinalizeFlush ==
    LET resolved == Resolved(buffer)
    IN \E fail \in FlushFailures(resolved) : finalize_flush(resolved, fail)

FinalizeClose == \E fail \in CloseFailures : finalize_close(fail)

Next == AddPoint \/ FinalizeFlush \/ FinalizeClose

Spec == Init /\ [][Next]_vars

(***************************************************************************)
(* What the stream and the caller's list show.                             *)
(***************************************************************************)
PacketHeaders == {c \in writer.data : c.kind = "PacketHeader"}

\* The section header as stored at the section's start.
StoredHeaders ==
    {c \in writer.data : c.kind = "SectionHeader" /\ c.off = section_offset
                         /\ c.len = SectionHeaderSize}

\* The packet_length in the stored header of the i-th packet.
StoredPacketLength(i) ==
    (CHOOSE c \in PacketHeaders : c.off = packets[i].off).a

StoredPacketLengths == SumOver(StoredPacketLength, 1, Len(packets))

\* The last call was finalize and returned Ok.
FinalizedOk == last.op = "finalize" /\ last.res = Ok

\* The length of a packet before it is rounded: header, size table, full bytes.
UnroundedLength(entry) ==
    LET size(i) == (Len(entry.points) * prototype[i].bits) \div 8
    IN PacketHeaderSize + 2 * Len(prototype) + SumOver(size, 1, Len(prototype))

(***************************************************************************)
(* C1: after add_point calls that all succeeded and a finalize that        *)
(* succeeded, the section_length of the rewritten header is the header     *)
(* size plus the packet_length of every packet written.                    *)
(***************************************************************************)
SectionLengthIsHeaderPlusPackets ==
    (FinalizedOk /\ errors = 0) =>
        /\ StoredHeaders # {}
        /\ \A h \in StoredHeaders :
               h.b = SectionHeaderSize + StoredPacketLengths

SectionLengthWitness ==
    FinalizedOk /\ errors = 0 /\ closed = 1 /\ Len(packets) = 2

(***************************************************************************)
(* C2: no packet header in the stream carries a packet_length above 65535; *)
(* a flush that computes a larger one returns InternalError and leaves the *)
(* stream as it was.                                                       *)
(***************************************************************************)
PacketLengthFitsU16 ==
    /\ \A c \in PacketHeaders : c.a <= U16Max
    /\ last.computed > U16Max =>
           /\ last.res = InternalError
           /\ writer = last.before
    /\ last.res = InternalError => last.computed > U16Max

PacketLengthWitness ==
    /\ last.op = "add_point" /\ last.flushed
    /\ last.res = InternalError
    /\ last.computed > U16Max

(***************************************************************************)
(* C3: the packet_length of every packet header written is a multiple of   *)
(* 4.                                                                      *)
(***************************************************************************)
PacketLengthMultipleOf4 == \A c \in PacketHeaders : c.a % 4 = 0

\* A packet whose length had to be rounded is in the stream.
RoundedPacketWitness ==
    \E i \in 1..Len(packets) :
        /\ UnroundedLength(packets[i]) % 4 # 0
        /\ \E c \in PacketHeaders :
               c.off = packets[i].off /\ c.a > UnroundedLength(packets[i])

(***************************************************************************)
(* C4: with capacity C >= 1 and no error, the i-th packet is written by    *)
(* the (i*C)-th add_point call and holds C points; finalize adds one more  *)
(* packet of N mod C points exactly if N mod C # 0: ceil(N/C) packets.     *)
(***************************************************************************)
AutomaticPackets(count) ==
    \A i \in 1..count :
        /\ packets[i].op = "add_point"
        /\ packets[i].n = i * max_points_per_packet
        /\ Len(packets[i].points) = max_points_per_packet

PacketsPerCapacity ==
    LET C == max_points_per_packet
        N == calls.add_point
    IN (C >= 1 /\ errors = 0) =>
        /\ calls.finalize = 0 =>
               /\ Len(packets) = N \div C
               /\ AutomaticPackets(N \div C)
               /\ Len(buffer) = N % C
        /\ (calls.finalize = 1 /\ FinalizedOk) =>
               /\ Len(packets) = (N + C - 1) \div C
               /\ AutomaticPackets(N \div C)
               /\ N % C # 0 =>
                      /\ packets[Len(packets)].op = "finalize"
                      /\ Len(packets[Len(packets)].points) = N % C
               /\ buffer = << >>

PacketsPerCapacityWitness ==
    /\ max_points_per_packet = 2 /\ errors = 0
    /\ calls.finalize = 1 /\ FinalizedOk
    /\ calls.add_point = 3 /\ Len(packets) = 2

(***************************************************************************)
(* C5: a session finalized with no add_point has no packet, its header     *)
(* written twice with section_length equal to the header size, and one     *)
(* record with point count 0 appended.                                     *)
(***************************************************************************)
EmptySessionFinalized ==
    (calls.add_point = 0 /\ calls.finalize = 1 /\ FinalizedOk) =>
        /\ packets = << >>
        /\ PacketHeaders = {}
        /\ header_writes = 2
        /\ writer = last.before
        /\ StoredHeaders # {}
        /\ \A h \in StoredHeaders : h.b = SectionHeaderSize
        /\ Len(pointclouds) = prior + 1
        /\ pointclouds[Len(pointclouds)].records = 0

EmptySessionWitness ==
    calls.add_point = 0 /\ calls.finalize = 1 /\ FinalizedOk /\ prior = 1

(***************************************************************************)
(* Reading a section back: the size table of a packet tells where the      *)
(* bytes of each field start and end.                                      *)
(***************************************************************************)
\* What a reader gets from bytes that are not the start of the field's values.
Garbage == << -1 >>

\* The i-th entry of the size table of the packet at off.
SizeEntry(off, i) ==
    (CHOOSE c \in writer.data :
        c.kind = "Size" /\ c.off = off + PacketHeaderSize + 2 * (i - 1)).a

\* The values of field i a reader takes from the packet: as many values of the
\* field's bit width as the bytes the size table gives the field hold, at most
\* one per point.
DecodeField(entry, i) ==
    LET n == Len(prototype)
        size(j) == SizeEntry(entry.off, j)
        start == entry.off + PacketHeaderSize + 2 * n + SumOver(size, 1, i - 1)
        held == (size(i) * 8) \div prototype[i].bits
        count == IF held < Len(entry.points) THEN held ELSE Len(entry.points)
        found == {c \in writer.data : c.kind = "Data" /\ c.b = i /\ c.off = start}
    IN IF count = 0 THEN << >>
       ELSE IF found = {} THEN Garbage
       ELSE SubSeq((CHOOSE c \in found : TRUE).vals, 1, count)

\* The values of field i of the points of a packet, as enqueued.
Enqueued(entry, i) ==
    [j \in 1..Len(entry.points) |-> entry.points[j][prototype[i].name]]

\* The bytes of field i written for the packet.
FieldBytes(entry, i) ==
    {c \in writer.data : c.kind = "Data" /\ c.b = i /\ c.off >= entry.off
                         /\ c.off < entry.off + entry.packet_length + 4}

(***************************************************************************)
(* C6: for every packet and field, the sub-stream holds all k*w bits in    *)
(* ceil(k*w/8) bytes and reading the section back gives every enqueued     *)
(* value.                                                                  *)
(***************************************************************************)
SubStreamsHoldAllBits ==
    errors = 0 =>
        \A p \in 1..Len(packets) : \A i \in 1..Len(prototype) :
            /\ \E c \in FieldBytes(packets[p], i) :
                   c.len * 8 >= Len(packets[p].points) * prototype[i].bits
            /\ DecodeField(packets[p], i) = Enqueued(packets[p], i)

(***************************************************************************)
(* C7: an add_point call with a point that lacks a prototype field fails   *)
(* with MissingField and writes nothing, in every queue state.             *)
(***************************************************************************)
Lacks(point) == \E i \in 1..Len(prototype) : prototype[i].name \notin DOMAIN point

AddPointRejectsIncompletePoint ==
    (last.op = "add_point" /\ Lacks(last.point[1])) =>
        /\ last.res.kind = "MissingField"
        /\ writer = last.before

(***************************************************************************)
(* C7 as amended: such a call writes nothing and no packet ever holds such *)
(* a point; the call returns Ok when it runs no flush or the capacity is   *)
(* 0, and fails (MissingField, or EncodingError for what was encoded       *)
(* before) when it runs a flush with capacity >= 1.                        *)
(***************************************************************************)
IncompletePointWritesNothing ==
    /\ (last.op = "add_point" /\ Lacks(last.point[1])) =>
           /\ writer = last.before
           /\ (~last.flushed \/ max_points_per_packet = 0) => last.res = Ok
           /\ (last.flushed /\ max_points_per_packet >= 1) =>
                  last.res.kind \in {"MissingField", "EncodingError"}
    /\ \A p \in 1..Len(packets) : \A j \in 1..Len(packets[p].points) :
           ~Lacks(packets[p].points[j])

IncompletePointWitness ==
    /\ last.op = "add_point" /\ Lacks(last.point[1])
    /\ last.flushed /\ last.res.kind = "MissingField"
    /\ packets # << >>

(***************************************************************************)
(* C8: a flush that returns MissingField names a prototype field the       *)
(* point it stopped at lacks (the first such field), and leaves the        *)
(* stream's contents and position as they were before the flush.           *)
(***************************************************************************)
MissingFieldLeavesStream ==
    last.res.kind = "MissingField" =>
        /\ last.flushed
        /\ writer = last.before
        /\ last.culprit # << >>
        /\ \E i \in 1..Len(prototype) :
               /\ prototype[i].name = last.res.field
               /\ last.res.field \notin DOMAIN last.culprit[1]
               /\ \A j \in 1..(i - 1) : prototype[j].name \in DOMAIN last.culprit[1]

MissingFieldWitness ==
    /\ last.op = "finalize" /\ last.res.kind = "MissingField"
    /\ packets # << >>
    /\ Len(prototype) = 2

(***************************************************************************)
(* C9: every successful finalize appends one record to the caller's list,  *)
(* with the guid and prototype given at open, the number of add_point      *)
(* calls as point count and the position of the header placeholder as file *)
(* offset.                                                                 *)
(***************************************************************************)
FinalizeAppendsOneRecord ==
    /\ Len(pointclouds) = prior + closed
    /\ \A i \in 1..prior : pointclouds[i] = PriorRecord
    /\ FinalizedOk =>
           LET record == pointclouds[Len(pointclouds)]
           IN /\ record.guid = guid
              /\ record.prototype = prototype
              /\ record.records = calls.add_point
              /\ \E c \in writer.data :
                     c.kind = "SectionHeader" /\ c.off = record.file_offset

FinalizeRecordWitness ==
    FinalizedOk /\ calls.add_point = 3 /\ prior = 1 /\ closed = 1

(***************************************************************************)
(* C10: once finalize has returned Ok, no later call writes to the stream, *)
(* rewinds it or appends a record.                                         *)
(***************************************************************************)
ClosedIsTerminal ==
    [][closed >= 1 =>
          /\ writer' = writer
          /\ rewinds' = rewinds
          /\ pointclouds' = pointclouds]_vars

(***************************************************************************)
(* The order of the points.                                                *)
(***************************************************************************)
\* The points of the first i of the packets pk, one packet after the other.
RECURSIVE PointsUpTo(_, _)
PointsUpTo(pk, i) == IF i = 0 THEN << >> ELSE PointsUpTo(pk, i - 1) \o pk[i].points

IsSuffix(s, q) ==
    /\ Len(s) <= Len(q)
    /\ s = SubSeq(q, Len(q) - Len(s) + 1, Len(q))

\* The packet whose bytes hold the chunk at off.
PacketAt(off) ==
    {p \in 1..Len(packets) :
        packets[p].off <= off /\ off < packets[p].off + packets[p].packet_length + 4}

\* Every field's bytes in the stream hold the values of the packet's points,
\* in the order of the points, and every packet has the bytes of each field.
DataInOrder ==
    /\ \A c \in writer.data :
           c.kind = "Data" =>
               \E p \in PacketAt(c.off) : c.vals = Enqueued(packets[p], c.b)
    /\ Cardinality({c \in writer.data : c.kind = "Data"})
           = Len(packets) * Len(prototype)

\* One step of the session: the packets are only added to, the points taken
\* into new packets and the queue left are, in this order, the end of the old
\* queue with the point given, and all of it if the step met no error.
OrderKept ==
    LET added == calls'.add_point # calls.add_point
        queue == IF added THEN Append(buffer, last'.point[1]) ELSE buffer
        taken == PointsUpTo(SubSeq(packets', Len(packets) + 1, Len(packets')),
                            Len(packets') - Len(packets))
    IN /\ Len(packets') >= Len(packets)
       /\ SubSeq(packets', 1, Len(packets)) = packets
       /\ IsSuffix(taken \o buffer', queue)
       /\ errors' = errors => taken \o buffer' = queue
       /\ io_errors' = 0 => DataInOrder'

(***************************************************************************)
(* C11: points are serialized in the order they were enqueued, within a    *)
(* packet and from one packet to the next; in a session without errors     *)
(* every point enqueued is in exactly one packet or still in the queue.    *)
(***************************************************************************)
PointsSerializedInOrder == [][OrderKept]_vars

PointsInOrderWitness ==
    /\ errors = 0 /\ FinalizedOk
    /\ Len(packets) = 2
    /\ Len(packets[1].points) = 2
    /\ packets[1].points[1] # packets[1].points[2]
    /\ DataInOrder

(***************************************************************************)
(* C12: a packet is written atomically whatever the error: after a flush   *)
(* returns, either the whole packet is in the stream or no byte of it is.  *)
(***************************************************************************)
PacketIsAtomic ==
    last.flushed =>
        \/ writer.data = last.before.data
        \/ /\ last.res \in {Ok, Running}
           /\ packets # << >>
           /\ packets[Len(packets)].complete
           /\ packets[Len(packets)].off = last.before.position
           /\ \E c \in PacketHeaders : c.off = last.before.position

(***************************************************************************)
(* C13: the section length grows by packet_length only for a packet that   *)
(* was written completely: a flush that returns an error leaves            *)
(* section_length as it was before the flush.                              *)
(***************************************************************************)
SectionLengthKeptOnError ==
    [][errors' > errors =>
          section_header'.section_length = section_header.section_length]_vars

(***************************************************************************)
(* finalize once the queue is empty.                                       *)
(***************************************************************************)
\* The bytes of the section header in the stream.
HeaderRegion(c) == Overlaps(c, section_offset, section_offset + SectionHeaderSize)

\* One step that is the end of a finalize call: the queue was empty; the
\* header is rewritten only after the seek to the section start, the record
\* appended only after the header was rewritten and the stream sought back to
\* where it was.  When it returns Ok: the position is the one before, the
\* header at the section start has the data offset given at open and the
\* section length, and every byte outside the header is as it was.
FinalizeStepsInOrder ==
    (last'.op = "finalize" /\ ~last'.flushed) =>
        /\ buffer = << >>
        /\ header_writes' # header_writes => rewinds' = rewinds + 1
        /\ pointclouds' # pointclouds =>
               /\ last'.res = Ok
               /\ header_writes' = header_writes + 1
               /\ rewinds' = rewinds + 1
        /\ last'.res # Ok => pointclouds' = pointclouds
        /\ last'.res = Ok =>
               /\ pointclouds' = Append(pointclouds, NewPointCloud)
               /\ writer'.position = writer.position
               /\ {c \in writer'.data : HeaderRegion(c)}
                      = {Chunk(section_offset, SectionHeaderSize, "SectionHeader",
                               section_offset + SectionHeaderSize,
                               section_header.section_length, << >>)}
               /\ {c \in writer'.data : ~HeaderRegion(c)} \ {c \in writer.data : ~HeaderRegion(c)}
                      \subseteq {c \in writer'.data : c.kind = "Torn"}
               /\ {c \in writer.data : ~HeaderRegion(c)} \subseteq writer'.data

(***************************************************************************)
(* C14: finalize flushes until the queue is empty, records the end         *)
(* position, seeks to the section start, rewrites the header, seeks back   *)
(* and then appends the record; on success the position is the end of the *)
(* section, only the header bytes were overwritten and the record is       *)
(* appended only if every step before succeeded.                           *)
(***************************************************************************)
FinalizeInOrder == [][FinalizeStepsInOrder]_vars

FinalizeInOrderWitness ==
    /\ FinalizedOk /\ Len(packets) = 2 /\ header_writes = 2 /\ rewinds = 1
    /\ writer.position = last.before.position
    /\ writer.position > section_offset + SectionHeaderSize

(***************************************************************************)
(* C15: for every packet written and every section start, the stream       *)
(* advances during the flush by the packet_length declared in the packet   *)
(* header; hence after finalize the section length is the end position     *)
(* less the section start.                                                 *)
(***************************************************************************)
StreamAdvancesByPacketLength ==
    /\ (errors = 0 /\ last.flushed /\ last.computed > 0) =>
           /\ \E c \in PacketHeaders :
                  c.off = last.before.position /\ c.a = last.computed
           /\ writer.position - last.before.position = last.computed
    /\ (FinalizedOk /\ errors = 0) =>
           \A h \in StoredHeaders : h.b = writer.position - section_offset

(***************************************************************************)
(* C16: with capacity >= 1 the queue holds fewer than                      *)
(* max_points_per_packet points whenever add_point has returned, so one    *)
(* flush of finalize empties it and finalize runs no second flush; this    *)
(* holds after failed flushes too.                                         *)
(***************************************************************************)
QueueBelowCapacity ==
    max_points_per_packet >= 1 =>
        /\ pc = "idle" => Len(buffer) < max_points_per_packet
        /\ pc = "finalize" => buffer = << >>

QueueBelowCapacityWitness ==
    /\ max_points_per_packet = 2
    /\ pc = "finalize" /\ buffer = << >>
    /\ errors >= 1
    /\ packets # << >>

(***************************************************************************)
(* C17: the capacity leaves headroom for every prototype: a packet of at   *)
(* most max_points_per_packet points has a packet_length of at most 65535, *)
(* and no flush fails with the InternalError for the packet length.        *)
(***************************************************************************)
CapacityLeavesHeadroom ==
    /\ last.res # InternalError
    /\ last.flushed => last.computed <= U16Max

(***************************************************************************)
(* The size table of a packet.                                             *)
(***************************************************************************)
\* The chunks of one kind written for the packet.
ChunksOf(entry, kind) ==
    {c \in writer.data : c.kind = kind /\ c.off >= entry.off
                         /\ c.off < entry.off + entry.packet_length + 4}

\* The size table has one entry per field, in prototype order, right behind
\* the packet header, which counts them.
SizeTableComplete(entry) ==
    /\ \E c \in PacketHeaders : c.off = entry.off /\ c.b = Len(prototype)
    /\ Cardinality(ChunksOf(entry, "Size")) = Len(prototype)
    /\ \A i \in 1..Len(prototype) :
           \E c \in ChunksOf(entry, "Size") :
               c.b = i /\ c.off = entry.off + PacketHeaderSize + 2 * (i - 1)

\* The entries are the full bytes of the fields, unchanged by the narrowing.
SizesNotNarrowed(entry) ==
    \A c \in ChunksOf(entry, "Size") :
        c.a = (Len(entry.points) * prototype[c.b].bits) \div 8

\* Entry i is the length of the bytes written for field i.
SizesArePayloadLengths(entry) ==
    \A i \in 1..Len(prototype) :
        \E c \in FieldBytes(entry, i) : c.len = SizeEntry(entry.off, i)

(***************************************************************************)
(* C18: in every packet written the size table has one entry per field in  *)
(* prototype order and entry i is the exact byte length of the i-th        *)
(* payload buffer written after the table; the narrowing to 16 bits does   *)
(* not change a length.                                                    *)
(***************************************************************************)
SizeTableMatchesPayload ==
    errors = 0 =>
        \A p \in 1..Len(packets) :
            /\ SizeTableComplete(packets[p])
            /\ SizesNotNarrowed(packets[p])
            /\ SizesArePayloadLengths(packets[p])

(***************************************************************************)
(* Termination of finalize.  A call whose queue is empty goes on to its    *)
(* closing steps and returns; a flush of the loop is a step of its own.    *)
(***************************************************************************)
FairSpec ==
    /\ Init /\ [][Next]_vars
    /\ WF_vars(FinalizeClose)

(***************************************************************************)
(* C19: finalize terminates for every prototype and every queue, also when *)
(* max_points_per_packet is 0 and a flush of the queue removes no point:   *)
(* a call inside its flush loop comes to return.                           *)
(***************************************************************************)
FinalizeTerminates == (pc = "finalize") ~> (pc = "idle")

(***************************************************************************)
(* C20: between operations point_count is the number of points in the      *)
(* packets written plus the number of points in the queue, and so the      *)
(* point count of every record emitted is the number of points stored in   *)
(* the section's packets, also after a call returned an error.             *)
(***************************************************************************)
\* The points in the packets that were written completely.
StoredPoints ==
    LET stored(p) == IF packets[p].complete THEN Len(packets[p].points) ELSE 0
    IN SumOver(stored, 1, Len(packets))

PointCountIsStoredPlusQueued ==
    /\ point_count = StoredPoints + Len(buffer)
    /\ FinalizedOk => pointclouds[Len(pointclouds)].records = StoredPoints

====
